---- MODULE Spec2Model ----
(***************************************************************************)
(* Shell emulator (src/emulator.py, stage 2, and src/КУ1.py, stage 1).     *)
(* A line of text is a sequence of one-character strings.  An output line  *)
(* is a sequence whose elements are characters or whole fixed literals of  *)
(* the program (the prompt, the message prefixes).                         *)
(***************************************************************************)
EXTENDS Integers, Sequences, FiniteSets, TLC

(* ---------- bounds ---------- *)
MaxHist == 3
MaxKeys == 4
MaxFrag == 4

(* ---------- characters ---------- *)
SQ == "'"
DQ == "\""
BS == "\\"
Whitespace == {" ", "\t", "\n", "\r"}
Quotes == {SQ, DQ}
Seps == {BS, "/"}
VarChars ==
  {"a", "b", "c", "d", "e", "g", "h", "i", "l", "n", "o", "p", "q", "s", "t",
   "u", "w", "x", "y", "A", "E", "F", "I", "L", "M", "N", "O", "P", "R", "S",
   "U", "X", "1", "2", "_", "-"}

IndexOf(s, c) ==
  IF \E i \in 1..Len(s) : s[i] = c
  THEN CHOOSE i \in 1..Len(s) : s[i] = c /\ \A j \in 1..(i-1) : s[j] # c
  ELSE 0

Drop(s, n) == SubSeq(s, n + 1, Len(s))

RECURSIVE LStrip(_)
LStrip(s) == IF s # <<>> /\ Head(s) \in Whitespace THEN LStrip(Tail(s)) ELSE s

RECURSIVE RStrip(_)
RStrip(s) ==
  IF s # <<>> /\ s[Len(s)] \in Whitespace THEN RStrip(SubSeq(s, 1, Len(s) - 1)) ELSE s

Strip_none(s) == s

Strip(s) == RStrip(LStrip(s))

StartsWith(s, p) == Len(s) >= Len(p) /\ SubSeq(s, 1, Len(p)) = p

RECURSIVE Join(_)
Join(args) ==
  IF args = <<>> THEN <<>>
  ELSE IF Len(args) = 1 THEN args[1]
  ELSE args[1] \o <<" ">> \o Join(Tail(args))

(* ---------- host environment ---------- *)
USERPROFILE == <<"U", "S", "E", "R", "P", "R", "O", "F", "I", "L", "E">>
USERNAME == <<"U", "S", "E", "R", "N", "A", "M", "E">>
Home == <<"c", BS, "h">>
Environ == (USERPROFILE :> Home) @@ (USERNAME :> <<"h">>)

Prompt == "user@host:cwd$"
Cwd == "cwd"

(* ---------- os.path.expandvars (ntpath) ---------- *)
RECURSIVE VarRun(_)
VarRun(s) == IF s # <<>> /\ Head(s) \in VarChars THEN 1 + VarRun(Tail(s)) ELSE 0

EnvGet(var, dflt) == IF var \in DOMAIN Environ THEN Environ[var] ELSE dflt

RECURSIVE ExpandVars(_)
ExpandVars(path) ==
  IF path = <<>> THEN <<>>
  ELSE
    LET c == Head(path)
        r == Tail(path)
    IN CASE c = SQ ->
              LET i == IndexOf(r, SQ)
              IN IF i = 0 THEN <<c>> \o r
                 ELSE <<SQ>> \o SubSeq(r, 1, i) \o ExpandVars(Drop(r, i))
         [] c = "%" ->
              IF r # <<>> /\ Head(r) = "%" THEN <<c>> \o ExpandVars(Tail(r))
              ELSE
                LET i == IndexOf(r, "%")
                IN IF i = 0 THEN <<"%">> \o r
                   ELSE LET var == SubSeq(r, 1, i - 1)
                        IN EnvGet(var, <<"%">> \o var \o <<"%">>) \o ExpandVars(Drop(r, i))
         [] c = "$" ->
              IF r # <<>> /\ Head(r) = "$" THEN <<c>> \o ExpandVars(Tail(r))
              ELSE IF r # <<>> /\ Head(r) = "{" THEN
                LET q == Tail(r)
                    i == IndexOf(q, "}")
                IN IF i = 0 THEN <<"$", "{">> \o q
                   ELSE LET var == SubSeq(q, 1, i - 1)
                        IN EnvGet(var, <<"$", "{">> \o var \o <<"}">>) \o ExpandVars(Drop(q, i))
              ELSE
                LET n == VarRun(r)
                    var == SubSeq(r, 1, n)
                IN EnvGet(var, <<"$">> \o var) \o ExpandVars(Drop(r, n))
         [] OTHER -> <<c>> \o ExpandVars(r)

(* ---------- os.path.expanduser (ntpath) ---------- *)
RECURSIVE FirstSep(_, _)
FirstSep(s, i) == IF i > Len(s) \/ s[i] \in Seps THEN i ELSE FirstSep(s, i + 1)

RECURSIVE LastSep(_, _)
LastSep(s, i) == IF i = 0 \/ s[i] \in Seps THEN i ELSE LastSep(s, i - 1)

RECURSIVE RStripSeps(_)
RStripSeps(s) ==
  IF s # <<>> /\ s[Len(s)] \in Seps THEN RStripSeps(SubSeq(s, 1, Len(s) - 1)) ELSE s

Basename(p) == Drop(p, LastSep(p, Len(p)))

Dirname(p) ==
  LET head == SubSeq(p, 1, LastSep(p, Len(p)))
  IN IF RStripSeps(head) = <<>> THEN head ELSE RStripSeps(head)

PathJoin(a, b) ==
  IF a = <<>> \/ a[Len(a)] \in Seps \cup {":"} THEN a \o b ELSE a \o <<BS>> \o b

ExpandUser(path) ==
  IF path = <<>> \/ Head(path) # "~" THEN path
  ELSE
    LET i == FirstSep(path, 2)
        target_user == SubSeq(path, 2, i - 1)
        rest == Drop(path, i - 1)
        userhome == Environ[USERPROFILE]
        current_user == Environ[USERNAME]
    IN IF target_user = <<>> \/ target_user = current_user THEN userhome \o rest
       ELSE IF current_user # Basename(userhome) THEN path
       ELSE PathJoin(Dirname(userhome), target_user) \o rest

(* ---------- shlex.split(s, posix=False) ---------- *)
NoClosingQuotation == "No closing quotation"

RECURSIVE ReadTokens(_, _, _, _)
ReadTokens(s, state, token, acc) ==
  IF s = <<>> THEN
    IF state \in Quotes THEN [ok |-> FALSE, tokens |-> <<>>, msg |-> NoClosingQuotation]
    ELSE [ok |-> TRUE, tokens |-> IF token = <<>> THEN acc ELSE Append(acc, token), msg |-> ""]
  ELSE
    LET c == Head(s)
        r == Tail(s)
    IN CASE state = " " ->
              IF c \in Whitespace THEN ReadTokens(r, " ", <<>>, acc)
              ELSE IF c \in Quotes THEN ReadTokens(r, c, <<c>>, acc)
              ELSE ReadTokens(r, "a", <<c>>, acc)
         [] state \in Quotes ->
              IF c = state THEN ReadTokens(r, " ", <<>>, Append(acc, Append(token, c)))
              ELSE ReadTokens(r, state, Append(token, c), acc)
         [] OTHER ->
              IF c \in Whitespace THEN ReadTokens(r, " ", <<>>, Append(acc, token))
              ELSE ReadTokens(r, "a", Append(token, c), acc)

Unquoted(tok) ==
  IF Len(tok) >= 2 /\ tok[1] \in Quotes /\ tok[Len(tok)] = tok[1]
  THEN SubSeq(tok, 2, Len(tok) - 1)
  ELSE tok

ShlexSplit_unquoting(s) ==
  LET r == ReadTokens(s, " ", <<>>, <<>>)
  IN [r EXCEPT !.tokens = [i \in 1..Len(r.tokens) |-> Unquoted(r.tokens[i])]]

ShlexSplit(s) == ReadTokens(s, " ", <<>>, <<>>)

(* ---------- fixed texts of the program ---------- *)
MsgSyntax == "Sintaksicheskaya oshibka: "
MsgNotFound == "Neizvestnaya komanda: "
MsgExit == "Zavershenie raboty emulyatora."
MsgNoArgs == "(bez argumentov)"
MsgStubTarget == "(zaglushka) Pereiti v: "
MsgScriptStart == "[SCRIPT] Zapusk: "
MsgScriptMissing == "[SCRIPT] Fail ne naiden: "
MsgScriptAborted == "[SCRIPT] Prervano iz-za oshibki v stroke "
MsgScriptReadError == "[SCRIPT] Oshibka chteniya skripta: "
ScriptPath == "startup.txt"
ReadErrorText == "<read error>"

EXIT == <<"e", "x", "i", "t">>
QUIT == <<"q", "u", "i", "t">>
ECHO == <<"e", "c", "h", "o">>
PWD == <<"p", "w", "d">>
LS == <<"l", "s">>
CD == <<"c", "d">>

(* ---------- state ---------- *)
VARIABLES
  program,         \* which of the two programs runs: "emulator" or "KU1"
  keys,            \* the texts the user types in this session
  startup_script,  \* the file named by --startup (status "none": not given)
  history,         \* self._history
  hist_idx,        \* self._hist_idx
  entry,           \* contents of the input widget self.entry
  output,          \* lines of the output widget self.output
  destroy_pending, \* number of after(50, self.destroy) timers not yet fired
  closed,          \* the window has been destroyed
  script_state,    \* "none", "scheduled" (after(150, ...)), "running", "done"
  lineno,          \* enumerate counter of the script loop
  cwd,             \* self.cwd
  prompt_var,      \* self.prompt_var
  executed,        \* history variable: every line handed to the pipeline
  keylog           \* history variable: recall keys pressed since the last submission

PromptEcho(line) == <<prompt_var, " ">> \o line

(* ---------- built-in commands ---------- *)
cmd_echo_silent(args) == IF args = <<>> THEN <<>> ELSE << Join(args) >>

cmd_echo(args) == << Join(args) >>

cmd_stub_any_target(cmd, args) ==
  LET rendered_args == IF args # <<>> THEN Join(args) ELSE <<MsgNoArgs>>
  IN << cmd \o <<" ">> \o rendered_args >>
     \o (IF args # <<>> THEN << <<MsgStubTarget>> \o args[1] >> ELSE <<>>)

cmd_stub(cmd, args) ==
  LET rendered_args == IF args # <<>> THEN Join(args) ELSE <<MsgNoArgs>>
  IN << cmd \o <<" ">> \o rendered_args >>
     \o (IF cmd = CD /\ args # <<>> THEN << <<MsgStubTarget>> \o args[1] >> ELSE <<>>)

(* Result of one dispatch: the value returned (ok), the lines written,      *)
(* whether after(50, destroy) was called, and the branch that ran (kind).   *)
Result(ok, out, exit, kind) == [ok |-> ok, out |-> out, exit |-> exit, kind |-> kind]

Lower(tok) ==
  [i \in 1..Len(tok) |->
     CASE tok[i] = "E" -> "e" [] tok[i] = "L" -> "l" [] tok[i] = "S" -> "s"
       [] tok[i] = "P" -> "p" [] tok[i] = "X" -> "x" [] OTHER -> tok[i]]

dispatch_tokens_nocase(tokens) ==
  IF tokens = <<>> THEN Result(TRUE, <<>>, FALSE, "noop")
  ELSE
    LET cmd == Lower(Head(tokens))
        args == Tail(tokens)
    IN IF cmd \in {EXIT, QUIT} THEN Result(TRUE, << <<MsgExit>> >>, TRUE, "exit")
       ELSE IF cmd = ECHO THEN Result(TRUE, cmd_echo(args), FALSE, "echo")
       ELSE IF cmd = PWD THEN Result(TRUE, << <<cwd>> >>, FALSE, "pwd")
       ELSE IF cmd \in {LS, CD} THEN Result(TRUE, cmd_stub(cmd, args), FALSE, "stub")
       ELSE Result(FALSE, << <<MsgNotFound>> \o cmd >>, FALSE, "notfound")

dispatch_tokens(tokens) ==
  IF tokens = <<>> THEN Result(TRUE, <<>>, FALSE, "noop")
  ELSE
    LET cmd == Head(tokens)
        args == Tail(tokens)
    IN IF cmd \in {EXIT, QUIT} THEN Result(TRUE, << <<MsgExit>> >>, TRUE, "exit")
       ELSE IF cmd = ECHO THEN Result(TRUE, cmd_echo(args), FALSE, "echo")
       ELSE IF cmd = PWD THEN Result(TRUE, << <<cwd>> >>, FALSE, "pwd")
       ELSE IF cmd \in {LS, CD} THEN Result(TRUE, cmd_stub(cmd, args), FALSE, "stub")
       ELSE Result(FALSE, << <<MsgNotFound>> \o cmd >>, FALSE, "notfound")

MapExpandUser(tokens) == [i \in 1..Len(tokens) |-> ExpandUser(tokens[i])]

execute_line_closing(line) ==
  LET expanded == ExpandVars(line)
      split == ShlexSplit(expanded)
  IN IF ~split.ok THEN Result(FALSE, << <<MsgSyntax, split.msg>> >>, TRUE, "syntax")
     ELSE dispatch_tokens(MapExpandUser(split.tokens))

execute_line(line) ==
  LET expanded == ExpandVars(line)
      split == ShlexSplit(expanded)
  IN IF ~split.ok THEN Result(FALSE, << <<MsgSyntax, split.msg>> >>, FALSE, "syntax")
     ELSE dispatch_tokens(MapExpandUser(split.tokens))

(* src/КУ1.py: the pipeline and the dispatch are inlined in run_command;    *)
(* the whole line goes through expanduser before it is split.               *)
KU1_pipeline(cmdline) ==
  LET expanded == ExpandUser(ExpandVars(cmdline))
      split == ShlexSplit(expanded)
  IN IF ~split.ok THEN Result(FALSE, << <<MsgSyntax, split.msg>> >>, FALSE, "syntax")
     ELSE
       LET tokens == MapExpandUser(split.tokens)
       IN IF tokens = <<>> THEN Result(TRUE, <<>>, FALSE, "noop")
          ELSE
            LET cmd == Head(tokens)
                args == Tail(tokens)
            IN IF cmd \in {EXIT, QUIT} THEN Result(TRUE, << <<MsgExit>> >>, TRUE, "exit")
               ELSE IF cmd = ECHO THEN Result(TRUE, cmd_echo(args), FALSE, "echo")
               ELSE IF cmd = PWD THEN Result(TRUE, << <<cwd>> >>, FALSE, "pwd")
               ELSE IF cmd \in {LS, CD} THEN Result(TRUE, cmd_stub(cmd, args), FALSE, "stub")
               ELSE Result(FALSE, << <<MsgNotFound>> \o cmd >>, FALSE, "notfound")

IsSkipped_hash_only(line) ==
  \/ line = <<>>
  \/ StartsWith(line, <<"#">>)

IsSkipped(line) ==
  \/ line = <<>>
  \/ StartsWith(line, <<"#">>)
  \/ StartsWith(line, <<"/", "/">>)
  \/ StartsWith(line, <<";">>)

(* ---------- inputs: typed texts and script files ---------- *)
Sp == <<" ">>
One == <<"o", "n", "e">>
Two == <<"t", "w", "o">>
BOGUS == <<"b", "o", "g", "u", "s">>
LineA == <<"a">>
LineB == <<"b">>
LineC == <<"c">>
EchoOne == ECHO \o Sp \o One
EchoTwo == ECHO \o Sp \o Two
EchoUnclosed == ECHO \o Sp \o <<DQ, "a">>
EchoUpper == <<"E", "c", "h", "o">> \o Sp \o <<"a">>
EchoQuoted == ECHO \o Sp \o <<DQ, "a", " ", "b", DQ>>
EchoVars == ECHO \o Sp \o <<"%">> \o USERNAME \o <<"%", " ", "%", "X", "%">>
CdHomePadded == <<" ">> \o CD \o Sp \o <<"~", BS, "d", " ", " ">>
Blank == <<" ", "\t">>

HistKeyboard == {LineA, LineB, LineC}

Keyboards ==
  { HistKeyboard,
    {EXIT, EchoUnclosed, EchoUpper, EchoOne},
    {EchoQuoted, EchoVars, CdHomePadded, Blank} }

ScriptKeyboard == {BOGUS, EXIT}

File(status, lines, fail_at) == [status |-> status, lines |-> lines, fail_at |-> fail_at]
NoScript == File("none", <<>>, 0)

Files ==
  { File("ok", <<EchoOne, BOGUS, EchoTwo>>, 0),
    File("ok", <<EXIT, EchoTwo>>, 0),
    File("ok", <<<<"#", "c">>, <<>>, <<" ">> \o EchoUnclosed, PWD>>, 0),
    File("ok", <<EchoOne, <<"/", "/", "c">>, LS>>, 0),
    File("ok", <<<<";", "x">>, QUIT, BOGUS>>, 0),
    File("ok", <<EchoOne, EchoTwo, PWD>>, 3),
    File("ok", <<EchoOne>>, 1),
    File("missing", <<>>, 0),
    File("unreadable", <<>>, 0) }

Scenarios ==
  [program : {"emulator", "KU1"}, keys : Keyboards, script : {NoScript}]
    \cup [program : {"emulator"}, keys : {ScriptKeyboard}, script : Files]

vars == <<program, keys, startup_script, cwd, prompt_var, history, hist_idx, entry, output,
          destroy_pending, closed, script_state, lineno, executed, keylog>>

host == <<program, keys, startup_script, cwd, prompt_var>>

Call(src, n, line, res) == [src |-> src, lineno |-> n, line |-> line, kind |-> res.kind]

Init ==
  \E sc \in Scenarios :
    /\ program = sc.program
    /\ keys = sc.keys
    /\ startup_script = sc.script
    /\ cwd = Cwd
    /\ prompt_var = Prompt
    /\ history = <<>>
    /\ hist_idx = 0
    /\ entry = <<>>
    /\ output = <<>>
    /\ destroy_pending = 0
    /\ closed = FALSE
    /\ script_state = IF sc.script.status = "none" THEN "none" ELSE "scheduled"
    /\ lineno = 0
    /\ executed = <<>>
    /\ keylog = <<>>

(* Tk runs one callback at a time: no event is handled while the script    *)
(* callback runs, and none after the window is destroyed.                  *)
Idle_reentrant == ~closed

Idle == ~closed /\ script_state # "running"

(* The key log is kept only in the sessions typed on HistKeyboard.  It holds *)
(* the recall keys pressed since the last submission, the latest MaxKeys of *)
(* them, and is <<"type">> from the moment the user types into the widget   *)
(* until the next submission.                                               *)
Typed == <<"type">>

Observe(key) ==
  keylog' = IF keys # HistKeyboard THEN keylog
            ELSE IF key = "submit" THEN <<>>
            ELSE IF key = "type" \/ keylog = Typed THEN Typed
            ELSE LET log == Append(keylog, key)
                 IN IF Len(log) > MaxKeys THEN Tail(log) ELSE log

(* ---------- user events ---------- *)
Max(a, b) == IF a > b THEN a ELSE b
Min(a, b) == IF a < b THEN a ELSE b

next_idx_unclamped(idx, n) == idx + 1

next_idx_stuck(idx, n) == Min(n, idx)

prev_idx(idx) == Max(0, idx - 1)

next_idx(idx, n) == Min(n, idx + 1)

TypeText(text) ==
  /\ Idle
  /\ entry' = text
  /\ Observe("type")
  /\ UNCHANGED <<host, history, hist_idx, output, destroy_pending, closed,
                 script_state, lineno, executed>>

on_hist_up ==
  /\ Idle
  /\ IF history = <<>>
     THEN UNCHANGED <<hist_idx, entry>>
     ELSE /\ hist_idx' = prev_idx(hist_idx)
          /\ entry' = history[hist_idx' + 1]
  /\ Observe("up")
  /\ UNCHANGED <<host, history, output, destroy_pending, closed, script_state,
                 lineno, executed>>

on_hist_down ==
  /\ Idle
  /\ IF history = <<>>
     THEN UNCHANGED <<hist_idx, entry>>
     ELSE /\ hist_idx' = next_idx(hist_idx, Len(history))
          /\ entry' = IF hist_idx' < Len(history) THEN history[hist_idx' + 1] ELSE <<>>
  /\ Observe("down")
  /\ UNCHANGED <<host, history, output, destroy_pending, closed, script_state,
                 lineno, executed>>

clear_output ==
  /\ Idle
  /\ output' = <<>>
  /\ UNCHANGED <<host, keylog, history, hist_idx, entry, destroy_pending, closed,
                 script_state, lineno, executed>>

Submit_cursor_kept(cmdline, res) ==
  /\ Len(history) < MaxHist
  /\ output' = output \o <<PromptEcho(cmdline)>> \o res.out
  /\ history' = Append(history, cmdline)
  /\ hist_idx' = hist_idx
  /\ entry' = <<>>
  /\ destroy_pending' = destroy_pending + (IF res.exit THEN 1 ELSE 0)
  /\ executed' = Append(executed, Call("interactive", 0, cmdline, res))
  /\ Observe("submit")
  /\ UNCHANGED <<host, closed, script_state, lineno>>

Submit(cmdline, res) ==
  /\ Len(history) < MaxHist
  /\ output' = output \o <<PromptEcho(cmdline)>> \o res.out
  /\ history' = Append(history, cmdline)
  /\ hist_idx' = Len(history')
  /\ entry' = <<>>
  /\ destroy_pending' = destroy_pending + (IF res.exit THEN 1 ELSE 0)
  /\ executed' = Append(executed, Call("interactive", 0, cmdline, res))
  /\ Observe("submit")
  /\ UNCHANGED <<host, closed, script_state, lineno>>

run_command ==
  /\ Idle
  /\ program = "emulator"
  /\ LET cmdline == Strip(entry)
     IN IF cmdline = <<>> THEN UNCHANGED vars
        ELSE Submit(cmdline, execute_line(cmdline))

KU1_run_command ==
  /\ Idle
  /\ program = "KU1"
  /\ LET cmdline == Strip(entry)
     IN IF cmdline = <<>> THEN UNCHANGED vars
        ELSE Submit(cmdline, KU1_pipeline(cmdline))

on_close ==
  /\ Idle
  /\ closed' = TRUE
  /\ UNCHANGED <<host, keylog, history, hist_idx, entry, output, destroy_pending,
                 script_state, lineno, executed>>

(* ---------- timers ---------- *)
destroy ==
  /\ Idle
  /\ destroy_pending > 0
  /\ destroy_pending' = destroy_pending - 1
  /\ closed' = TRUE
  /\ UNCHANGED <<host, keylog, history, hist_idx, entry, output, script_state, lineno,
                 executed>>

(* the loop of run_startup_script goes on after a line that returned True *)
after_line_no_break(ok) == "running"

after_line(ok) == IF ~ok THEN "done" ELSE "running"

(* run_startup_script up to the for loop *)
run_startup_script ==
  /\ ~closed
  /\ script_state = "scheduled"
  /\ LET started == <<MsgScriptStart, ScriptPath>>
     IN CASE startup_script.status = "missing" ->
               /\ output' = output \o <<started, <<MsgScriptMissing, ScriptPath>>>>
               /\ script_state' = "done"
          [] startup_script.status = "unreadable" ->
               /\ output' = output \o <<started, <<MsgScriptReadError, ReadErrorText>>>>
               /\ script_state' = "done"
          [] OTHER ->
               /\ output' = output \o <<started>>
               /\ script_state' = "running"
  /\ UNCHANGED <<host, history, hist_idx, entry, destroy_pending, closed,
                 lineno, executed, keylog>>

(* one iteration of the for loop of run_startup_script *)
script_line_recording ==
  /\ script_state = "running"
  /\ LET n == lineno + 1
     IN IF startup_script.fail_at = n THEN
          /\ output' = Append(output, <<MsgScriptReadError, ReadErrorText>>)
          /\ script_state' = "done"
          /\ UNCHANGED <<lineno, destroy_pending, executed, history, hist_idx>>
        ELSE IF n > Len(startup_script.lines) THEN
          /\ script_state' = "done"
          /\ UNCHANGED <<output, lineno, destroy_pending, executed, history, hist_idx>>
        ELSE
          LET raw == startup_script.lines[n] \o <<"\n">>
              line == Strip(raw)
              res == execute_line(line)
          IN /\ lineno' = n
             /\ IF IsSkipped(line) THEN
                  UNCHANGED <<output, script_state, destroy_pending, executed, history, hist_idx>>
                ELSE
                  /\ executed' = Append(executed, Call("script", n, line, res))
                  /\ destroy_pending' = destroy_pending + (IF res.exit THEN 1 ELSE 0)
                  /\ output' = output \o <<PromptEcho(line)>> \o res.out
                                 \o (IF ~res.ok
                                     THEN <<<<MsgScriptAborted, ToString(n), ".">>>>
                                     ELSE <<>>)
                  /\ script_state' = after_line(res.ok)
                  /\ history' = Append(history, line)
                  /\ hist_idx' = Len(history')
  /\ UNCHANGED <<host, entry, closed, keylog>>

script_line ==
  /\ script_state = "running"
  /\ LET n == lineno + 1
     IN IF startup_script.fail_at = n THEN
          /\ output' = Append(output, <<MsgScriptReadError, ReadErrorText>>)
          /\ script_state' = "done"
          /\ UNCHANGED <<lineno, destroy_pending, executed>>
        ELSE IF n > Len(startup_script.lines) THEN
          /\ script_state' = "done"
          /\ UNCHANGED <<output, lineno, destroy_pending, executed>>
        ELSE
          LET raw == startup_script.lines[n] \o <<"\n">>
              line == Strip(raw)
              res == execute_line(line)
          IN /\ lineno' = n
             /\ IF IsSkipped(line) THEN
                  UNCHANGED <<output, script_state, destroy_pending, executed>>
                ELSE
                  /\ executed' = Append(executed, Call("script", n, line, res))
                  /\ destroy_pending' = destroy_pending + (IF res.exit THEN 1 ELSE 0)
                  /\ output' = output \o <<PromptEcho(line)>> \o res.out
                                 \o (IF ~res.ok
                                     THEN <<<<MsgScriptAborted, ToString(n), ".">>>>
                                     ELSE <<>>)
                  /\ script_state' = after_line(res.ok)
  /\ UNCHANGED <<host, history, hist_idx, entry, closed, keylog>>

Next ==
  \/ \E text \in keys : TypeText(text)
  \/ on_hist_up
  \/ on_hist_down
  \/ clear_output
  \/ run_command
  \/ KU1_run_command
  \/ on_close
  \/ destroy
  \/ run_startup_script
  \/ script_line

Spec == Init /\ [][Next]_vars

(* ---------- one arbitrary line, typed or read from a script ---------- *)
PctUser == <<"%">> \o USERNAME \o <<"%">>
PctUndef == <<"%", "X", "%">>

SpA == Sp \o <<"a">>

Fragments == {ECHO, LS, CD, <<"a">>, SpA, Sp, <<DQ>>, <<SQ>>, PctUser, PctUndef, <<"~">>}

RECURSIVE Texts(_)
Texts(n) ==
  IF n = 0 THEN {<<>>}
  ELSE LET shorter == Texts(n - 1)
       IN shorter \cup {t \o f : t \in shorter, f \in Fragments}

(* The line is either in the input widget of one of the two programs or the *)
(* first line of a two-line startup script.                                 *)
InitTok ==
  \E text \in Texts(MaxFrag), mode \in {"emulator", "KU1", "script"} :
    /\ program = IF mode = "KU1" THEN "KU1" ELSE "emulator"
    /\ keys = {}
    /\ startup_script = IF mode = "script" THEN File("ok", <<text, PWD>>, 0) ELSE NoScript
    /\ cwd = Cwd
    /\ prompt_var = Prompt
    /\ history = <<>>
    /\ hist_idx = 0
    /\ entry = IF mode = "script" THEN <<>> ELSE text
    /\ output = <<>>
    /\ destroy_pending = 0
    /\ closed = FALSE
    /\ script_state = IF mode = "script" THEN "scheduled" ELSE "none"
    /\ lineno = 0
    /\ executed = <<>>
    /\ keylog = <<>>

NextTok ==
  \/ run_command
  \/ KU1_run_command
  \/ run_startup_script
  \/ script_line

SpecTok == InitTok /\ [][NextTok]_vars

(* ---------- properties ---------- *)
Last(s) == s[Len(s)]
ScriptCalls(log) == SelectSeq(log, LAMBDA c : c.src = "script")
Failed(c) == c.kind \in {"syntax", "notfound"}
Added(log, log2) == Len(log2) = Len(log) + 1 /\ SubSeq(log2, 1, Len(log)) = log

(* C1: script runner, abort on first error.  The step that executes a       *)
(* failing script line ends the output with the abort message naming the    *)
(* 1-based position of that line in the file and ends the loop; from then   *)
(* on no script line is executed or echoed (the output changes only with an *)
(* interactive submission or a clearing of the output).                     *)
C1_step ==
  LET sc == ScriptCalls(executed)
      sc2 == ScriptCalls(executed')
  IN /\ (sc2 # sc /\ Failed(Last(sc2))) =>
          /\ Last(sc2).lineno \in 1..Len(startup_script.lines)
          /\ Strip(startup_script.lines[Last(sc2).lineno]) = Last(sc2).line
          /\ Last(output') = <<MsgScriptAborted, ToString(Last(sc2).lineno), ".">>
          /\ script_state' = "done"
     /\ (\E i \in 1..Len(sc) : Failed(sc[i])) =>
          /\ sc2 = sc
          /\ script_state' = "done"
          /\ lineno' = lineno
          /\ (executed' = executed => output' \in {output, <<>>})

C1_ScriptAbortsOnFirstError == [][C1_step]_vars

C1_Witness ==
  LET sc == ScriptCalls(executed)
  IN /\ startup_script.lines = <<EchoOne, BOGUS, EchoTwo>>
     /\ script_state = "done"
     /\ Len(sc) = 2
     /\ sc[2].kind = "notfound"
     /\ sc[2].lineno = 2
     /\ \E i \in 1..Len(output) : output[i] = <<MsgScriptAborted, "2", ".">>

(* C2: script runner, terminate.  A script line that dispatches exit or     *)
(* quit is the last script line executed, and is not reported as an error.  *)
C2_ScriptStopsAtTerminate ==
  LET sc == ScriptCalls(executed)
  IN \A i \in 1..Len(sc) : sc[i].kind = "exit" => i = Len(sc)

(* C3: once a terminating command has been dispatched, no command is        *)
(* dispatched after it; stated for the case the claim singles out, a line   *)
(* submitted interactively after the termination request.                   *)
C3_NoDispatchAfterTerminate ==
  \A i \in 1..Len(executed) : \A j \in (i + 1)..Len(executed) :
    executed[i].kind = "exit" => executed[j].src # "interactive"

(* C4 as stated: after submitting a, b, c, the keys previous, previous,     *)
(* next leave "b" in the input buffer.                                      *)
AfterABC(log) == keys = HistKeyboard /\ history = <<LineA, LineB, LineC>> /\ keylog = log

C4_RecallLeavesB == AfterABC(<<"up", "up", "down">>) => entry = LineB

(* C4 amended: after submitting a, b, c, previous then previous leaves "b"  *)
(* in the buffer (cursor 1), and the following next leaves "c" (cursor 2).  *)
C4_RecallLeavesC ==
  /\ AfterABC(<<"up", "up">>) => (entry = LineB /\ hist_idx = 1)
  /\ AfterABC(<<"up", "up", "down">>) => (entry = LineC /\ hist_idx = 2)

C4_Witness == AfterABC(<<"up", "up", "down">>) /\ entry = LineC

(* C5: the cursor stays within 0..Len(history); after at least as many      *)
(* previous presses in a row as there are entries, the cursor is 0 and the  *)
(* buffer holds the oldest entry.                                           *)
TrailingUps(log, n) ==
  /\ log # Typed
  /\ Len(log) >= n
  /\ \A i \in (Len(log) - n + 1)..Len(log) : log[i] = "up"

C5_CursorInRange ==
  /\ hist_idx \in 0..Len(history)
  /\ (keys = HistKeyboard /\ history # <<>> /\ TrailingUps(keylog, Len(history)))
       => (hist_idx = 0 /\ entry = history[1])

C5_Witness ==
  /\ keys = HistKeyboard
  /\ Len(history) = 3
  /\ keylog = <<"up", "up", "up", "up">>
  /\ hist_idx = 0
  /\ entry = history[1]

(* C6: previous at cursor 0 and next at cursor Len(history) change neither  *)
(* the cursor nor the input buffer.                                         *)
C6_step ==
  ((on_hist_up /\ hist_idx = 0) \/ (on_hist_down /\ hist_idx = Len(history)))
    => UNCHANGED <<hist_idx, entry>>

C6_RecallBeyondBoundIsNoOp == [][C6_step]_vars

(* C7: a non-blank interactive submission appends the stripped line to the  *)
(* history and sets the cursor to the new length, whatever its outcome; no  *)
(* step removes or changes an entry of the history.                         *)
C7_step ==
  /\ (history' = history \/ Added(history, history'))
  /\ ((run_command \/ KU1_run_command) /\ Strip(entry) # <<>>)
       => /\ history' = Append(history, Strip(entry))
          /\ hist_idx' = Len(history')
          /\ Added(executed, executed')
          /\ Last(executed').src = "interactive"
          /\ Last(executed').line = Strip(entry)

C7_SubmissionAppends == [][C7_step]_vars

C7_Witness ==
  /\ Len(history) = 3
  /\ hist_idx = 3
  /\ {executed[i].kind : i \in 1..Len(executed)} = {"syntax", "notfound", "exit"}
  /\ \A i \in 1..3 : executed[i].src = "interactive" /\ executed[i].line = history[i]

(* C8: an interactive line that fails writes its echo and exactly one error *)
(* line, schedules no close and leaves the window open; the line submitted  *)
(* after it is executed as it would be on its own.                          *)
Pipeline(line) == IF program = "KU1" THEN KU1_pipeline(line) ELSE execute_line(line)

C8_step ==
  (Added(executed, executed') /\ Last(executed').src = "interactive") =>
    LET c == Last(executed')
    IN /\ Failed(c) =>
            /\ Len(output') = Len(output) + 2
            /\ output'[Len(output) + 1] = PromptEcho(c.line)
            /\ Head(Last(output')) = (IF c.kind = "syntax" THEN MsgSyntax ELSE MsgNotFound)
            /\ destroy_pending' = destroy_pending
            /\ closed' = FALSE
       /\ (executed # <<>> /\ Failed(Last(executed))) =>
            /\ c.kind = Pipeline(c.line).kind
            /\ output' = output \o <<PromptEcho(c.line)>> \o Pipeline(c.line).out

C8_InteractiveFailureContinues == [][C8_step]_vars

C8_Witness ==
  /\ ~closed
  /\ destroy_pending = 0
  /\ Len(executed) = 3
  /\ executed[1].kind = "syntax"
  /\ executed[2].kind = "notfound"
  /\ executed[3].kind = "echo"
  /\ \A i \in 1..3 : executed[i].src = "interactive"

(* C9: a line whose first token is not exactly exit, quit, echo, pwd, ls or *)
(* cd gives the not-found failure carrying that token and nothing else: the *)
(* output gains the echo and the not-found line (and the abort line in a    *)
(* script), no close is scheduled, and the history and the cursor are as    *)
(* the append of the line left them (untouched by a script line).           *)
Registry == {EXIT, QUIT, ECHO, PWD, LS, CD}

DispatchedTokens(line) ==
  LET expanded == IF program = "KU1" THEN ExpandUser(ExpandVars(line)) ELSE ExpandVars(line)
      split == ShlexSplit(expanded)
  IN IF split.ok THEN MapExpandUser(split.tokens) ELSE <<>>

C9_step ==
  Added(executed, executed') =>
    LET c == Last(executed')
        tokens == DispatchedTokens(c.line)
    IN (tokens # <<>> /\ tokens[1] \notin Registry) =>
         /\ c.kind = "notfound"
         /\ output'[Len(output) + 2] = <<MsgNotFound>> \o tokens[1]
         /\ Len(output') = Len(output) + (IF c.src = "script" THEN 3 ELSE 2)
         /\ destroy_pending' = destroy_pending
         /\ closed' = closed
         /\ IF c.src = "interactive"
            THEN history' = Append(history, c.line) /\ hist_idx' = Len(history')
            ELSE UNCHANGED <<history, hist_idx>>

C9_UnknownCommand == [][C9_step]_vars

C9_Witness ==
  \E i \in 1..Len(executed) :
    /\ executed[i].line = EchoUpper
    /\ executed[i].kind = "notfound"
    /\ \E j \in 1..Len(output) : output[j] = <<MsgNotFound, "E", "c", "h", "o">>

(* C10: when the script source is missing or cannot be read, also when the  *)
(* read fails part-way through the file, the condition is reported and no   *)
(* script line has been executed.                                           *)
ReadFailureReported ==
  \E i \in 1..Len(output) :
    output[i] \in {<<MsgScriptMissing, ScriptPath>>, <<MsgScriptReadError, ReadErrorText>>}

C10_UnreadableScriptRunsNothing == ReadFailureReported => ScriptCalls(executed) = <<>>

(* C11: a script line that after trimming is empty or begins with #, // or  *)
(* ; is neither echoed nor executed and cannot end the loop, yet it         *)
(* advances the line counter; every other line is executed under its        *)
(* position in the file, and the abort message names that position.         *)
IsCommentOrEmpty(line) ==
  \/ line = <<>>
  \/ line[1] \in {"#", ";"}
  \/ (Len(line) >= 2 /\ line[1] = "/" /\ line[2] = "/")

C11_step ==
  (script_state = "running" /\ lineno' # lineno) =>
    LET line == Strip(startup_script.lines[lineno + 1])
    IN /\ lineno' = lineno + 1
       /\ IF IsCommentOrEmpty(line)
          THEN /\ UNCHANGED <<output, executed, destroy_pending>>
               /\ script_state' = "running"
          ELSE /\ Added(executed, executed')
               /\ Last(executed') = [src |-> "script", lineno |-> lineno + 1, line |-> line,
                                     kind |-> Last(executed').kind]
               /\ output'[Len(output) + 1] = PromptEcho(line)
               /\ Failed(Last(executed')) =>
                    Last(output') = <<MsgScriptAborted, ToString(lineno + 1), ".">>

C11_SkippedLinesCount == [][C11_step]_vars

C11_Witness ==
  /\ Len(startup_script.lines) = 4
  /\ startup_script.lines[1] = <<"#", "c">>
  /\ startup_script.lines[2] = <<>>
  /\ script_state = "done"
  /\ Len(executed) = 1
  /\ executed[1].lineno = 3
  /\ executed[1].kind = "syntax"
  /\ Last(output) = <<MsgScriptAborted, "3", ".">>
  /\ Len(output) = 4

(* C12: text inside a matching pair of quote characters becomes one token   *)
(* whatever whitespace it holds, and the token value is the text without    *)
(* the quote characters: echo writes its arguments without their quotes.    *)
BareArgs(tokens) == [i \in 1..(Len(tokens) - 1) |-> Unquoted(tokens[i + 1])]

C12_step ==
  (Added(executed, executed') /\ Last(executed').kind = "echo") =>
    LET c == Last(executed')
        tokens == DispatchedTokens(c.line)
    IN /\ c.line = EchoQuoted => Len(tokens) = 2
       /\ output'[Len(output) + 2] = Join(BareArgs(tokens))

C12_QuotesAreStripped == [][C12_step]_vars

(* C13: a line whose quoting is left open (a quote character with no        *)
(* matching closing quote after it) is a syntax error: the syntax message   *)
(* is written, nothing is dispatched and a script stops at it.              *)
RECURSIVE OpenQuote(_, _)
OpenQuote(s, q) ==
  IF s = <<>> THEN q
  ELSE IF q = "" THEN OpenQuote(Tail(s), IF Head(s) \in Quotes THEN Head(s) ELSE "")
  ELSE OpenQuote(Tail(s), IF Head(s) = q THEN "" ELSE q)

Unterminated(line) == OpenQuote(line, "") # ""

C13_step ==
  (Added(executed, executed') /\ Unterminated(Last(executed').line)) =>
    /\ Last(executed').kind = "syntax"
    /\ Len(output') >= Len(output) + 2
    /\ output'[Len(output) + 2] = <<MsgSyntax, NoClosingQuotation>>
    /\ destroy_pending' = destroy_pending
    /\ Last(executed').src = "script" => script_state' = "done"

C13_UnterminatedQuoteIsSyntaxError == [][C13_step]_vars

(* C14: when the tokenizer splits a line into tokens none of which holds    *)
(* whitespace, joining the tokens with single spaces and splitting again    *)
(* gives the same tokens.                                                   *)
TokenizerInput(line) ==
  IF program = "KU1" THEN ExpandUser(ExpandVars(line)) ELSE ExpandVars(line)

NoInnerWhitespace(tokens) ==
  \A i \in 1..Len(tokens) : \A k \in 1..Len(tokens[i]) : tokens[i][k] \notin Whitespace

C14_RetokenizeIsIdentity ==
  \A i \in 1..Len(executed) :
    LET first == ShlexSplit(TokenizerInput(executed[i].line))
    IN (first.ok /\ NoInnerWhitespace(first.tokens)) =>
         LET again == ShlexSplit(Join(first.tokens))
         IN again.ok /\ again.tokens = first.tokens

C14_Witness ==
  /\ Len(executed) = 1
  /\ executed[1].line = <<DQ, "a", DQ, "a">>
  /\ ShlexSplit(executed[1].line).tokens = << <<DQ, "a", DQ>>, <<"a">> >>
  /\ ShlexSplit(<<DQ, "a", DQ, " ", "a">>).tokens = << <<DQ, "a", DQ>>, <<"a">> >>

(* C15: echo writes exactly one line, its arguments in their order joined   *)
(* by single spaces, an empty line when it has no argument, and it          *)
(* succeeds: no close is scheduled and a script goes on to the next line.   *)
RECURSIVE SpaceJoined(_)
SpaceJoined(args) ==
  IF args = <<>> THEN <<>>
  ELSE IF Len(args) = 1 THEN args[1]
  ELSE args[1] \o <<" ">> \o SpaceJoined(Tail(args))

C15_step ==
  Added(executed, executed') =>
    LET c == Last(executed')
        tokens == DispatchedTokens(c.line)
    IN (tokens # <<>> /\ tokens[1] = ECHO) =>
         /\ c.kind = "echo"
         /\ Len(output') = Len(output) + 2
         /\ output'[Len(output) + 2] = SpaceJoined(Tail(tokens))
         /\ destroy_pending' = destroy_pending
         /\ c.src = "script" => script_state' = "running"

C15_EchoWritesJoinedArguments == [][C15_step]_vars

C15_Witness ==
  /\ Len(executed) = 2
  /\ executed[1].src = "script"
  /\ executed[1].line = ECHO \o SpA \o SpA
  /\ executed[1].kind = "echo"
  /\ output[3] = <<"a", " ", "a">>
  /\ executed[2].kind = "pwd"

(* C16: ls and cd write the command name followed by the arguments joined   *)
(* by spaces, or by the no-arguments marker; cd with an argument writes a   *)
(* second line naming its first argument, ls and a bare cd write no second  *)
(* line; the directory written by pwd and the prompt of the echo stay what  *)
(* they were at the start.                                                  *)
C16_step ==
  Added(executed, executed') =>
    LET c == Last(executed')
        tokens == DispatchedTokens(c.line)
    IN /\ (tokens # <<>> /\ tokens[1] \in {LS, CD}) =>
            LET cmd == tokens[1]
                args == Tail(tokens)
                second == cmd = CD /\ args # <<>>
            IN /\ c.kind = "stub"
               /\ output'[Len(output) + 2] =
                    cmd \o <<" ">> \o (IF args = <<>> THEN <<MsgNoArgs>> ELSE SpaceJoined(args))
               /\ Len(output') = Len(output) + (IF second THEN 3 ELSE 2)
               /\ second => output'[Len(output) + 3] = <<MsgStubTarget>> \o args[1]
               /\ cwd' = cwd
               /\ prompt_var' = prompt_var
       /\ output'[Len(output) + 1] = <<Prompt, " ">> \o c.line
       /\ c.kind = "pwd" => output'[Len(output) + 2] = <<Cwd>>

C16_StubsWriteNameAndArguments == [][C16_step]_vars

C16_Witness ==
  /\ Len(executed) = 2
  /\ executed[1].line = CD \o SpA \o SpA
  /\ executed[1].kind = "stub"
  /\ output[3] = CD \o SpA \o SpA
  /\ output[4] = <<MsgStubTarget, "a">>
  /\ executed[2].kind = "pwd"
  /\ Last(output) = <<Cwd>>

(* C17: every %NAME% reference with a name defined in the environment is    *)
(* replaced by its value on the whole line before the line is split, and a  *)
(* reference to an undefined name stays as it is written: the line runs as  *)
(* the line with the references replaced would run.                         *)
RECURSIVE ExpandPercent(_)
ExpandPercent(s) ==
  IF s = <<>> THEN <<>>
  ELSE IF Head(s) # "%" THEN <<Head(s)>> \o ExpandPercent(Tail(s))
  ELSE LET r == Tail(s)
           i == IndexOf(r, "%")
       IN IF i = 0 THEN s
          ELSE LET var == SubSeq(r, 1, i - 1)
               IN (IF var \in DOMAIN Environ THEN Environ[var] ELSE <<"%">> \o var \o <<"%">>)
                    \o ExpandPercent(Drop(r, i))

C17_step ==
  (Added(executed, executed') /\ program = "emulator") =>
    LET c == Last(executed')
        split == ShlexSplit(ExpandPercent(c.line))
        res == dispatch_tokens(MapExpandUser(split.tokens))
    IN split.ok =>
         /\ c.kind = res.kind
         /\ SubSeq(output', Len(output) + 2, Len(output) + 1 + Len(res.out)) = res.out

C17_EveryReferenceIsExpanded == [][C17_step]_vars

(* C18: the script runner leaves the history and its cursor as they are,    *)
(* whatever the lines of the script do; the history changes only by an      *)
(* interactive submission appending its line.                               *)
C18_step ==
  /\ (script_state' # script_state \/ lineno' # lineno
        \/ ScriptCalls(executed') # ScriptCalls(executed))
       => UNCHANGED <<history, hist_idx>>
  /\ history' # history =>
       /\ Added(executed, executed')
       /\ Last(executed').src = "interactive"
       /\ history' = Append(history, Last(executed').line)

C18_ScriptLeavesHistoryAlone == [][C18_step]_vars

C18_Witness ==
  /\ startup_script.lines = <<EXIT, EchoTwo>>
  /\ script_state = "done"
  /\ history = <<BOGUS>>
  /\ hist_idx = 1
  /\ Len(executed) = 3
  /\ executed[1].src = "interactive"
  /\ executed[2].kind = "exit"
  /\ executed[3].kind = "echo"

(* C19: while the script callback runs, no interactive command, recall,     *)
(* clearing or closing is processed, so the script lines are executed one   *)
(* after the other; a line submitted before the script starts is executed   *)
(* completely before the first script line.                                 *)
Contiguous(log) ==
  \A i \in 1..Len(log) : \A j \in i..Len(log) : \A k \in j..Len(log) :
    (log[i].src = "script" /\ log[k].src = "script") => log[j].src = "script"

C19_step ==
  /\ script_state = "running" =>
       /\ UNCHANGED <<history, hist_idx, entry, closed, keylog>>
       /\ SubSeq(output', 1, Len(output)) = output
       /\ executed' # executed =>
            (Added(executed, executed') /\ Last(executed').src = "script")
  /\ Contiguous(executed')
  /\ (script_state = "scheduled" /\ Added(executed, executed')) =>
       LET c == Last(executed')
       IN /\ c.src = "interactive"
          /\ output' = output \o <<PromptEcho(c.line)>> \o execute_line(c.line).out
          /\ script_state' = "scheduled"
          /\ lineno' = 0

C19_NoInterleaving == [][C19_step]_vars

C19_Witness ==
  /\ Len(executed) = 4
  /\ executed[1].src = "interactive"
  /\ executed[2].src = "script"
  /\ executed[3].src = "script"
  /\ executed[4].src = "interactive"
  /\ executed[3].lineno = executed[2].lineno + 1

(* C20: pressing Enter on an empty or whitespace-only input changes         *)
(* nothing: no output, no history entry, the same cursor, nothing           *)
(* executed; no blank line is ever in the history or among the executed.    *)
IsBlank(s) == \A i \in 1..Len(s) : s[i] \in Whitespace

C20_step ==
  /\ ((run_command \/ KU1_run_command) /\ IsBlank(entry)) =>
       UNCHANGED <<output, history, hist_idx, executed, destroy_pending, closed, entry>>
  /\ \A i \in 1..Len(history') : ~IsBlank(history'[i])
  /\ \A i \in 1..Len(executed') : ~IsBlank(executed'[i].line)

C20_BlankSubmissionIsNoOp == [][C20_step]_vars

C20_Witness ==
  /\ Idle
  /\ entry = Blank
  /\ Strip(entry) = <<>>
  /\ history = <<EchoQuoted, EchoVars>>
  /\ hist_idx = 2
  /\ Len(executed) = 2

====
